---- MODULE Spec2Model ----
(***************************************************************************)
(* State machine of script.js: the persisted application state            *)
(* (state.data), the localStorage slot, the post form and its image        *)
(* pipeline, and the handlers that mutate them.                            *)
(*                                                                         *)
(* Encoding of JavaScript values:                                          *)
(*   null                      -> NULL (0) in id / timestamp fields,       *)
(*                                NoPayload in payload fields              *)
(*   an absent property        -> a record without that field             *)
(*   a string                  -> a tuple of one-character strings         *)
(*   an image payload (data URL) -> a name ("S", "P", "Q", ...) whose      *)
(*                                length is given by PayloadLen            *)
(*   an image id 'img-<ms>-<rnd>' -> a positive integer                    *)
(*   Date.now()                -> the variable now (createdAt), or the     *)
(*                                token STAMP (updatedAt, likedAt)         *)
(***************************************************************************)
EXTENDS Integers, Sequences, FiniteSets, TLC

(* ------------------------------ bounds -------------------------------- *)
MaxId == 2
MaxTime == 2
MaxPicks == 2

(* ------------------------- program constants -------------------------- *)
DATA_VERSION == 1
STORAGE_LIMIT == 5 * 1024 * 1024
IMAGE_RESIZE_THRESHOLD == 1024 * 1024

NULL == 0

(* updatedAt and likedAt hold Date.now() values that no handler reads     *)
(* back (only render() does) and whose JSON rendering always has          *)
(* TimestampLen digits: they are kept as one token.                       *)
STAMP == 1
Stamp(t) == STAMP
NoPayload == "null"

(* Lengths of the JSON renderings of Date.now() (13 digits) and of an     *)
(* image id 'img-' + 13 digits + '-' + 4 base-36 characters.              *)
TimestampLen == 13
ImageIdLen == 22

(* ------------------------------- inputs ------------------------------- *)
(* Files the user can pick: the data URL the FileReader yields for each.  *)
Files == {"fS", "fQ"}

FileDataUrl(f) ==
  CASE f = "fS" -> "S"
    [] f = "fQ" -> "rawQ"

(* What canvas.toDataURL('image/jpeg', 0.9) yields for a decoded payload. *)
CanvasDataUrl(p) ==
  CASE p = "rawQ" -> "Q"
    [] OTHER -> p

PayloadLen(p) ==
  CASE p = "S" -> 1047886
    [] p = "Q" -> 4 * 1024 * 1024
    [] p = "rawQ" -> 6 * 1024 * 1024

(* Payloads a form can hold in imageDataUrl when it is submitted.         *)
Payloads == {"S", "Q"}

(* Raw contents of the text areas of a form (before trim()).              *)
Str_tags == <<" ", "#", "a", "#", "b", " ", "#", "a", " ">>
Str_plain == <<"a">>
Str_b == <<"#", "b">>
Str_blank == <<" ", " ">>
Str_empty == <<>>

RawBlock(s) == [content |-> s, language |-> "ja", pronunciation |-> <<" ">>]

BlockInputs ==
  { <<RawBlock(Str_tags)>>,
    <<RawBlock(Str_plain), RawBlock(Str_b)>>,
    <<RawBlock(Str_empty), RawBlock(Str_blank)>> }

(* ------------------------------ strings ------------------------------- *)
IsSpace(c) == c = " "

RECURSIVE TrimStart(_)
TrimStart(s) ==
  IF s # <<>> /\ IsSpace(Head(s)) THEN TrimStart(Tail(s)) ELSE s

RECURSIVE TrimEnd(_)
TrimEnd(s) ==
  IF s # <<>> /\ IsSpace(s[Len(s)]) THEN TrimEnd(SubSeq(s, 1, Len(s) - 1)) ELSE s

Trim(s) == TrimEnd(TrimStart(s))

Range(s) == { s[i] : i \in 1..Len(s) }

(* [\p{L}\p{N}_-] over the characters the inputs use                       *)
IsTagChar(c) == c \in {"a", "b", "_", "-"}

(* index of the last character of the run of tag characters starting at i *)
RECURSIVE TokenEnd(_, _)
TokenEnd(s, i) ==
  IF i < Len(s) /\ IsTagChar(s[i + 1]) THEN TokenEnd(s, i + 1) ELSE i

(* tagSet.add: a Set keeps insertion order and ignores a repeated value   *)
SetAdd(acc, t) == IF t \in Range(acc) THEN acc ELSE Append(acc, t)

(* the while ((m = regex.exec(content))) loop of one text                 *)
RECURSIVE ScanTags(_, _, _)
ScanTags(s, i, acc) ==
  IF i > Len(s) THEN acc
  ELSE IF s[i] = "#" /\ i < Len(s) /\ IsTagChar(s[i + 1])
       THEN LET e == TokenEnd(s, i + 1)
            IN ScanTags(s, e + 1, SetAdd(acc, SubSeq(s, i + 1, e)))
       ELSE ScanTags(s, i + 1, acc)

RECURSIVE ExtractFrom(_, _, _)
ExtractFrom(texts, k, acc) ==
  IF k > Len(texts) THEN acc
  ELSE ExtractFrom(texts, k + 1, ScanTags(texts[k].content, 1, acc))

extractTags(texts) == ExtractFrom(texts, 1, <<>>)

(* --------------------------- JSON.stringify --------------------------- *)
RECURSIVE DigitLen(_)
DigitLen(n) == IF n < 10 THEN 1 ELSE 1 + DigitLen(n \div 10)

RECURSIVE SumSeq(_)
SumSeq(s) == IF s = <<>> THEN 0 ELSE Head(s) + SumSeq(Tail(s))

(* '[' + items joined by ',' + ']' *)
ArrayLen(itemLens) ==
  2 + SumSeq(itemLens) + (IF Len(itemLens) > 0 THEN Len(itemLens) - 1 ELSE 0)

StrLen(s) == Len(s) + 2

LanguageLen(l) == IF l = "ja" THEN 2 ELSE 5

IdOrNullLen(v) == IF v = NULL THEN 4 ELSE DigitLen(v)
TimeOrNullLen(v) == IF v = NULL THEN 4 ELSE TimestampLen
ImageIdOrNullLen(v) == IF v = NULL THEN 4 ELSE ImageIdLen + 2
BoolLen(b) == IF b THEN 4 ELSE 5

(* {"content":"..","language":"..","pronunciation":".."} *)
TextLen(t) ==
  1 + 10 + StrLen(t.content)
    + 1 + 11 + LanguageLen(t.language) + 2
    + (IF "pronunciation" \in DOMAIN t THEN 1 + 16 + StrLen(t.pronunciation) ELSE 0)
    + 1

TextsLen(texts) == ArrayLen([k \in 1..Len(texts) |-> TextLen(texts[k])])
TagsLen(tags) == ArrayLen([k \in 1..Len(tags) |-> StrLen(tags[k])])

(* {"id":..,"texts":..,"tags":..,"createdAt":..,"updatedAt":..,"imageId":..,
    "imageRemoved":..,"isDeleted":..,"liked":..,"likedAt":..,"repostOf":..} *)
PostLen(p) ==
  1 + 5 + DigitLen(p.id)
    + 1 + 8 + TextsLen(p.texts)
    + 1 + 7 + TagsLen(p.tags)
    + 1 + 12 + TimestampLen
    + 1 + 12 + TimestampLen
    + 1 + 10 + ImageIdOrNullLen(p.imageId)
    + 1 + 15 + BoolLen(p.imageRemoved)
    + 1 + 12 + BoolLen(p.isDeleted)
    + 1 + 8 + BoolLen(p.liked)
    + 1 + 10 + TimeOrNullLen(p.likedAt)
    + 1 + 11 + IdOrNullLen(p.repostOf)
    + 1

(* {"id":..,"postId":..,"texts":..,"tags":..,"createdAt":..,"updatedAt":..,
    "imageId":..,"isDeleted":..[,"imageRemoved":false]} *)
ReplyLen(r) ==
  1 + 5 + DigitLen(r.id)
    + 1 + 9 + DigitLen(r.postId)
    + 1 + 8 + TextsLen(r.texts)
    + 1 + 7 + TagsLen(r.tags)
    + 1 + 12 + TimestampLen
    + 1 + 12 + TimestampLen
    + 1 + 10 + ImageIdOrNullLen(r.imageId)
    + 1 + 12 + BoolLen(r.isDeleted)
    + (IF "imageRemoved" \in DOMAIN r THEN 1 + 15 + BoolLen(r.imageRemoved) ELSE 0)
    + 1

SetToSeq(S) ==
  CHOOSE s \in [1..Cardinality(S) -> S] : Range(s) = S

(* {"img-..":"<payload>", ...} *)
ImagesLen(images) ==
  LET ids == SetToSeq(DOMAIN images)
  IN ArrayLen([k \in 1..Len(ids) |->
                 ImageIdLen + 2 + 1 + PayloadLen(images[ids[k]]) + 2])

(* The posts of d as a list; the empty list when d.posts is not an array. *)
PostsOf(d) == IF d.postsIsList THEN d.posts ELSE <<>>

(* JSON.stringify(state.data).length
   {"version":1,"posts":[..],"replies":[..],"images":{..},"lastId":n}      *)
SerializedLength(d) ==
  1 + 10 + DigitLen(d.version)
    + 1 + 8 + (IF d.postsIsList
               THEN ArrayLen([k \in 1..Len(d.posts) |-> PostLen(d.posts[k])])
               ELSE 1)
    + 1 + 10 + ArrayLen([k \in 1..Len(d.replies) |-> ReplyLen(d.replies[k])])
    + 1 + 9 + ImagesLen(d.images)
    + 1 + 9 + DigitLen(d.lastId)
    + 1

(* ------------------------------- state -------------------------------- *)
VARIABLES
  data,       \* state.data
  stored,     \* localStorage[STORAGE_KEY], as the state it encodes
  saveInput,  \* the state serialized by the first setItem of the last persistData
  now,        \* Date.now()
  form        \* the open post form: its closure variables and pending file picks

vars == <<data, stored, saveInput, now, form>>

defaultData ==
  [version |-> DATA_VERSION, posts |-> <<>>, postsIsList |-> TRUE,
   replies |-> <<>>, images |-> <<>>, lastId |-> 0]

NoBlob == [absent |-> TRUE]
ClosedForm == [open |-> FALSE]

(* --------------------------- image registry --------------------------- *)
ReferencedIds(d) ==
  ({ PostsOf(d)[i].imageId : i \in 1..Len(PostsOf(d)) }
     \cup { d.replies[j].imageId : j \in 1..Len(d.replies) }) \ {NULL}

Min(S) == CHOOSE x \in S : \A y \in S : x <= y

(* `img-${Date.now()}-${random}`: an id no image and no record carries    *)
FreshImageId(d) ==
  LET taken == DOMAIN d.images \cup ReferencedIds(d)
  IN Min((1..(Cardinality(taken) + 1)) \ taken)

(* faulty variant: no search for an identical payload *)
ensureImageId_noDedupe(d, dataUrl) ==
  LET id == FreshImageId(d)
  IN [id |-> id,
      data |-> [d EXCEPT !.images =
                  [k \in DOMAIN d.images \cup {id} |->
                     IF k = id THEN dataUrl ELSE d.images[k]]]]

ensureImageId(d, dataUrl) ==
  LET same == { k \in DOMAIN d.images : d.images[k] = dataUrl }
  IN IF same # {}
     THEN [id |-> Min(same), data |-> d]
     ELSE LET id == FreshImageId(d)
          IN [id |-> id,
              data |-> [d EXCEPT !.images =
                          [k \in DOMAIN d.images \cup {id} |->
                             IF k = id THEN dataUrl ELSE d.images[k]]]]

(* faulty variant: only the posts are searched *)
IsUsed_postsOnly(d, imageId) ==
  \E i \in 1..Len(d.posts) : d.posts[i].imageId = imageId

IsUsed(d, imageId) ==
  \/ \E i \in 1..Len(d.posts) : d.posts[i].imageId = imageId
  \/ \E j \in 1..Len(d.replies) : d.replies[j].imageId = imageId

(* faulty variant: the payload deleted without the search for users *)
removeImageIfUnused_unconditional(d, imageId) ==
  IF imageId = NULL THEN d
  ELSE [d EXCEPT !.images = [k \in DOMAIN d.images \ {imageId} |-> d.images[k]]]

removeImageIfUnused(d, imageId) ==
  IF imageId = NULL THEN d
  ELSE IF IsUsed(d, imageId) THEN d
       ELSE [d EXCEPT !.images = [k \in DOMAIN d.images \ {imageId} |-> d.images[k]]]

(* ------------------------------ eviction ------------------------------ *)
(* faulty variant: the comparator of renderTimeline, newest first *)
CompareCreatedAt_newestFirst(a, b) == b.createdAt - a.createdAt

(* the comparator (a, b) => a.createdAt - b.createdAt *)
CompareCreatedAt(a, b) == a.createdAt - b.createdAt

(* Array.prototype.sort (stable) on a list of indices into posts *)
RECURSIVE StableSort(_, _)
StableSort(posts, idxs) ==
  IF idxs = <<>> THEN <<>>
  ELSE LET rest == StableSort(posts, SubSeq(idxs, 1, Len(idxs) - 1))
           x == idxs[Len(idxs)]
           k == Cardinality({ j \in 1..Len(rest) :
                                CompareCreatedAt(posts[rest[j]], posts[x]) <= 0 })
       IN SubSeq(rest, 1, k) \o <<x>> \o SubSeq(rest, k + 1, Len(rest))

(* [...posts].filter((p) => p.imageId).sort(...), as indices into posts *)
Candidates(d) ==
  StableSort(PostsOf(d),
             SelectSeq([i \in 1..Len(PostsOf(d)) |-> i],
                       LAMBDA i : d.posts[i].imageId # NULL))

(* faulty variant: an if in place of the while, one eviction per save *)
enforceStorageLimit_once(d) ==
  IF SerializedLength(d) <= STORAGE_LIMIT THEN d
  ELSE LET candidates == Candidates(d)
       IN IF candidates = <<>> THEN d
          ELSE LET target == candidates[1]
                   d1 == removeImageIfUnused(d, d.posts[target].imageId)
               IN [d1 EXCEPT !.posts[target].imageId = NULL,
                             !.posts[target].imageRemoved = TRUE]

RECURSIVE enforceStorageLimit(_)
enforceStorageLimit(d) ==
  IF SerializedLength(d) <= STORAGE_LIMIT THEN d
  ELSE LET candidates == Candidates(d)
       IN IF candidates = <<>> THEN d
          ELSE LET target == candidates[1]
                   d1 == removeImageIfUnused(d, d.posts[target].imageId)
               IN enforceStorageLimit(
                    [d1 EXCEPT !.posts[target].imageId = NULL,
                               !.posts[target].imageRemoved = TRUE])

(* persistData: setItem(JSON.stringify(state.data)); enforceStorageLimit() *)
persistData(d) ==
  /\ saveInput' = d
  /\ data' = enforceStorageLimit(d)
  /\ stored' = data'

Init ==
  /\ data = defaultData
  /\ stored = NoBlob
  /\ saveInput = defaultData
  /\ now = 1
  /\ form = ClosedForm

(* the clock advances between handlers *)
Tick ==
  /\ now < MaxTime
  /\ now' = now + 1
  /\ UNCHANGED <<data, stored, saveInput, form>>

(* ---------------------------- post form ------------------------------ *)
(* What the submit handler reads from the text areas: trimmed blocks.     *)
(* faulty variant: the values taken without trim() *)
TextBlocks_untrimmed(blocks) ==
  [k \in 1..Len(blocks) |->
     [content |-> blocks[k].content,
      language |-> blocks[k].language,
      pronunciation |-> blocks[k].pronunciation]]

TextBlocks(blocks) ==
  [k \in 1..Len(blocks) |->
     [content |-> Trim(blocks[k].content),
      language |-> blocks[k].language,
      pronunciation |-> Trim(blocks[k].pronunciation)]]

HasContent(textBlocks) ==
  \E k \in 1..Len(textBlocks) : Len(textBlocks[k].content) > 0

(* targetPost of a form: none, a post or a reply of state.data (edit), or *)
(* the copy { ...post, repostOf: post.id } the repost button makes.       *)
NoTarget == [kind |-> "none"]
TargetRecord(d, tgt) ==
  IF tgt.kind = "reply" THEN d.replies[tgt.idx] ELSE d.posts[tgt.idx]

(* faulty variant: the id taken from the number of records *)
nextId_fromCount(d) ==
  [d EXCEPT !.lastId = Len(PostsOf(d)) + Len(d.replies) + 1]

nextId(d) == [d EXCEPT !.lastId = @ + 1]

(* mode === 'reply' *)
replyBranch(d, t, parentId, textBlocks, tags, imageId) ==
  LET d1 == nextId(d)
      reply == [id |-> d1.lastId, postId |-> parentId, texts |-> textBlocks,
                tags |-> tags, createdAt |-> t, updatedAt |-> Stamp(t),
                imageId |-> imageId, isDeleted |-> FALSE]
  IN [d1 EXCEPT !.replies = Append(@, reply)]

(* targetPost.imageRemoved = false *)
ClearImageRemoved(rec) ==
  [k \in DOMAIN rec \cup {"imageRemoved"} |->
     IF k = "imageRemoved" THEN FALSE ELSE rec[k]]

(* mode === 'edit' && targetPost; coll is "posts" or "replies" *)
editBranch(d, t, coll, idx, textBlocks, tags, imageId, imageDataUrl, removeImage) ==
  LET originalImageId == d[coll][idx].imageId
      d1 == [d EXCEPT ![coll][idx].texts = textBlocks,
                      ![coll][idx].tags = tags,
                      ![coll][idx].updatedAt = Stamp(t)]
  IN IF imageDataUrl # NoPayload
     THEN LET d2 == [d1 EXCEPT ![coll][idx] =
                       ClearImageRemoved([@ EXCEPT !.imageId = imageId])]
          IN IF originalImageId # NULL /\ originalImageId # imageId
             THEN removeImageIfUnused(d2, originalImageId)
             ELSE d2
     ELSE IF removeImage
          THEN LET d2 == removeImageIfUnused(d1, originalImageId)
               IN [d2 EXCEPT ![coll][idx] =
                     ClearImageRemoved([@ EXCEPT !.imageId = NULL])]
          ELSE d1

(* the final else: a new post (create, or repost when targetPost is a copy) *)
createBranch(d, t, repostOf, textBlocks, tags, imageId) ==
  LET d1 == nextId(d)
      post == [id |-> d1.lastId, texts |-> textBlocks, tags |-> tags,
               createdAt |-> t, updatedAt |-> Stamp(t), imageId |-> imageId,
               imageRemoved |-> FALSE, isDeleted |-> FALSE, liked |-> FALSE,
               likedAt |-> NULL, repostOf |-> repostOf]
  IN [d1 EXCEPT !.posts = Append(@, post)]

(* The click handler of the submit button, up to persistData().           *)
(* outcome: "rejected" (alert, then return), "threw" (uncaught TypeError    *)
(* before persistData) or "persist"; data: state.data at that point.      *)
submitClick(d, t, mode, tgt, parentId, blocks, imageDataUrl, removeImage) ==
  LET textBlocks == TextBlocks(blocks)
      tags == extractTags(textBlocks)
      targetImageId == IF tgt.kind = "none" THEN NULL ELSE TargetRecord(d, tgt).imageId
      ens == IF imageDataUrl # NoPayload
             THEN ensureImageId(d, imageDataUrl)
             ELSE [id |-> IF removeImage THEN NULL ELSE targetImageId, data |-> d]
  IN IF ~HasContent(textBlocks)
     THEN [outcome |-> "rejected", data |-> d]
     ELSE IF mode = "reply"
     THEN [outcome |-> "persist",
           data |-> replyBranch(ens.data, t, parentId, textBlocks, tags, ens.id)]
     ELSE IF mode = "edit" /\ tgt.kind # "none"
     THEN [outcome |-> "persist",
           data |-> editBranch(ens.data, t,
                               IF tgt.kind = "reply" THEN "replies" ELSE "posts",
                               tgt.idx, textBlocks, tags, ens.id,
                               imageDataUrl, removeImage)]
     ELSE IF ~d.postsIsList
     THEN [outcome |-> "threw", data |-> nextId(ens.data)]
     ELSE [outcome |-> "persist",
           data |-> createBranch(ens.data, t,
                                 IF tgt.kind = "none" THEN NULL
                                 ELSE TargetRecord(d, tgt).id,
                                 textBlocks, tags, ens.id)]

(* The effect of one run of the submit handler on the program state.      *)
Submit(mode, tgt, parentId, blocks, imageDataUrl, removeImage) ==
  LET r == submitClick(data, now, mode, tgt, parentId, blocks, imageDataUrl, removeImage)
  IN /\ CASE r.outcome = "rejected" -> UNCHANGED <<data, stored, saveInput>>
          [] r.outcome = "threw" -> data' = r.data /\ UNCHANGED <<stored, saveInput>>
          [] OTHER -> persistData(r.data)
     /\ UNCHANGED now

(* The values imageDataUrl and removeImage can hold when a form is        *)
(* submitted: nothing picked, a picked (and resized) payload, or the      *)
(* image removed with the remove button.                                  *)
FormImageStates ==
  { [imageDataUrl |-> NoPayload, removeImage |-> FALSE],
    [imageDataUrl |-> NoPayload, removeImage |-> TRUE] }
    \cup { [imageDataUrl |-> p, removeImage |-> FALSE] : p \in Payloads }

(* A record is created only while the id counter is below the bound.      *)
CanCreate == data.lastId < MaxId

(* new-post button, form filled in, submit *)
CreatePost(blocks, img) ==
  /\ CanCreate
  /\ Submit("create", NoTarget, NULL, blocks, img.imageDataUrl, img.removeImage)
  /\ UNCHANGED form

(* repost button of the card of a post that is not deleted *)
Repost(i, blocks, img) ==
  /\ CanCreate
  /\ i \in 1..Len(PostsOf(data))
  /\ ~data.posts[i].isDeleted
  /\ Submit("create", [kind |-> "copy", idx |-> i], NULL, blocks,
            img.imageDataUrl, img.removeImage)
  /\ UNCHANGED form

(* reply button of the card of a post that is not deleted *)
CreateReply(i, blocks, img) ==
  /\ CanCreate
  /\ i \in 1..Len(PostsOf(data))
  /\ ~data.posts[i].isDeleted
  /\ Submit("reply", NoTarget, data.posts[i].id, blocks,
            img.imageDataUrl, img.removeImage)
  /\ UNCHANGED form

(* edit button of the card of a post that is not deleted *)
EditPost(i, blocks, img) ==
  /\ i \in 1..Len(PostsOf(data))
  /\ ~data.posts[i].isDeleted
  /\ Submit("edit", [kind |-> "post", idx |-> i], NULL, blocks,
            img.imageDataUrl, img.removeImage)
  /\ UNCHANGED form

(* edit button of a reply card *)
EditReply(j, blocks, img) ==
  /\ data.postsIsList
  /\ j \in 1..Len(data.replies)
  /\ Submit("edit", [kind |-> "reply", idx |-> j], NULL, blocks,
            img.imageDataUrl, img.removeImage)
  /\ UNCHANGED form

(* ------------------------- delete, like, import ------------------------ *)
IndexOfId(seq, id) ==
  LET hits == { i \in 1..Len(seq) : seq[i].id = id }
  IN IF hits = {} THEN 0 ELSE Min(hits)

WithoutId(seq, id) == SelectSeq(seq, LAMBDA r : r.id # id)

(* faulty variant: the reply's own id compared in place of its postId *)
hasReplies_byOwnId(d, id) == \E j \in 1..Len(d.replies) : d.replies[j].id = id

(* state.data.replies.some((r) => r.postId === id) *)
hasReplies(d, id) == \E j \in 1..Len(d.replies) : d.replies[j].postId = id

(* deletePost after the confirm dialog was accepted, up to persistData()  *)
deletePost(d, id) ==
  LET i == IndexOfId(d.posts, id)
  IN IF hasReplies(d, id)
     THEN [d EXCEPT !.posts[i].isDeleted = TRUE,
                    !.posts[i].texts = << [content |-> <<>>, language |-> "ja"] >>]
     ELSE LET d1 == removeImageIfUnused(d, d.posts[i].imageId)
          IN [d1 EXCEPT !.posts = WithoutId(@, id)]

DeletePost(id, confirmed) ==
  /\ data.postsIsList
  /\ IF IndexOfId(data.posts, id) = 0 \/ ~confirmed
     THEN UNCHANGED <<data, stored, saveInput>>
     ELSE persistData(deletePost(data, id))
  /\ UNCHANGED <<now, form>>

(* deleteReply after the confirm dialog was accepted, up to persistData() *)
deleteReply(d, id) ==
  LET j == IndexOfId(d.replies, id)
      d1 == removeImageIfUnused(d, d.replies[j].imageId)
  IN [d1 EXCEPT !.replies = WithoutId(@, id)]

DeleteReply(id, confirmed) ==
  /\ data.postsIsList
  /\ IF IndexOfId(data.replies, id) = 0 \/ ~confirmed
     THEN UNCHANGED <<data, stored, saveInput>>
     ELSE persistData(deleteReply(data, id))
  /\ UNCHANGED <<now, form>>

(* faulty variant: the post rebuilt with imageRemoved back at its default *)
toggleLike_resetsFlag(d, t, id) ==
  LET i == IndexOfId(d.posts, id)
      liked == ~d.posts[i].liked
  IN [d EXCEPT !.posts[i].liked = liked,
               !.posts[i].likedAt = IF liked THEN Stamp(t) ELSE NULL,
               !.posts[i].imageRemoved = FALSE]

toggleLike(d, t, id) ==
  LET i == IndexOfId(d.posts, id)
      liked == ~d.posts[i].liked
  IN [d EXCEPT !.posts[i].liked = liked,
               !.posts[i].likedAt = IF liked THEN Stamp(t) ELSE NULL]

ToggleLike(id) ==
  /\ data.postsIsList
  /\ LET i == IndexOfId(data.posts, id)
     IN IF i = 0 \/ data.posts[i].isDeleted
        THEN UNCHANGED <<data, stored, saveInput>>
        ELSE persistData(toggleLike(data, now, id))
  /\ UNCHANGED <<now, form>>

(* Files offered to the import input:                                     *)
(*   "notJson"      text JSON.parse rejects                               *)
(*   "postsNotList" the text {"posts":5}                                  *)
(*   "emptyObject"  the text {}                                           *)
(*   "onePost"      an export holding one post, id 1, without image       *)
ImportFiles == {"notJson", "postsNotList", "emptyObject", "onePost"}

ExportedOnePost ==
  LET texts == TextBlocks(<<RawBlock(Str_tags)>>)
  IN createBranch(defaultData, 1, NULL, texts, extractTags(texts), NULL)

(* { ...defaultData(), ...json, version: DATA_VERSION } *)
Merged(file) ==
  IF file = "postsNotList"
  THEN [defaultData EXCEPT !.postsIsList = FALSE]
  ELSE IF file = "onePost" THEN ExportedOnePost
  ELSE defaultData

(* render() after the import: renderTimeline spreads state.data.posts,    *)
(* which throws when posts is not iterable.                               *)
RenderThrows(d) == ~d.postsIsList

(* The alert of the catch block is shown: JSON.parse threw, or render()   *)
(* threw after the state was replaced and persisted.                      *)
ImportAlerts(file) == file = "notJson" \/ RenderThrows(Merged(file))

(* reader.onload of importData: JSON.parse, replace state.data,           *)
(* persistData(), render(), all inside the try.                           *)
importData(file) ==
  /\ IF file = "notJson"
     THEN UNCHANGED <<data, stored, saveInput>>
     ELSE persistData(Merged(file))
  /\ UNCHANGED <<now, form>>

Next ==
  \/ Tick
  \/ \E b \in BlockInputs, img \in FormImageStates : CreatePost(b, img)
  \/ \E i \in 1..MaxId, b \in BlockInputs, img \in FormImageStates : Repost(i, b, img)
  \/ \E i \in 1..MaxId, b \in BlockInputs, img \in FormImageStates : CreateReply(i, b, img)
  \/ \E i \in 1..MaxId, b \in BlockInputs, img \in FormImageStates : EditPost(i, b, img)
  \/ \E j \in 1..MaxId, b \in BlockInputs, img \in FormImageStates : EditReply(j, b, img)
  \/ \E id \in 1..MaxId, c \in BOOLEAN : DeletePost(id, c)
  \/ \E id \in 1..MaxId, c \in BOOLEAN : DeleteReply(id, c)
  \/ \E id \in 1..MaxId : ToggleLike(id)
  \/ \E f \in ImportFiles : importData(f)

Spec == Init /\ [][Next]_vars

(* ------------------- the form and its image pipeline ------------------- *)
(* A post form step by step. The form is modal: while it is open no other *)
(* handler of the page runs. Its fields:                                  *)
(*   mode, tgt, parentId     the arguments of buildPostForm               *)
(*   imageDataUrl, removeImage  the closure variables                     *)
(*   picks      the file picks whose change handler is still suspended in *)
(*              an await, each with its file, its number n in the order   *)
(*              of the change events, and its stage:                      *)
(*                "reading"   awaiting readFileAsDataUrl                  *)
(*                "decoding"  awaiting resizeIfNeeded                     *)
(*                "hung"      the Image fired error: nothing settles the  *)
(*                            promise                                     *)
(*   pickCount  the number of change events so far                        *)
(*   imageFrom  the number of the pick whose handler assigned             *)
(*              imageDataUrl, 0 when it is null                           *)
(*   message    the validation alert has been shown                       *)
NewForm(mode, tgt, parentId) ==
  [open |-> TRUE, mode |-> mode, tgt |-> tgt, parentId |-> parentId,
   imageDataUrl |-> NoPayload, removeImage |-> FALSE,
   picks |-> <<>>, pickCount |-> 0, imageFrom |-> 0, message |-> FALSE]

RemoveAt(seq, k) == SubSeq(seq, 1, k - 1) \o SubSeq(seq, k + 1, Len(seq))

(* resizeIfNeeded returns its argument unless it is over the threshold *)
NeedsResize(dataUrl) == PayloadLen(dataUrl) > IMAGE_RESIZE_THRESHOLD

(* existingImageUrl: state.data.images[targetPost.imageId], or null *)
ExistingImageUrl(d, tgt) ==
  IF tgt.kind = "none" THEN NoPayload
  ELSE LET id == TargetRecord(d, tgt).imageId
       IN IF id # NULL /\ id \in DOMAIN d.images THEN d.images[id] ELSE NoPayload

(* the change handler resumes with its image: imageDataUrl = ...;         *)
(* removeImage = false                                                    *)
HandlerResumes(k, dataUrl) ==
  form' = [form EXCEPT !.picks = RemoveAt(@, k),
                       !.imageDataUrl = dataUrl,
                       !.removeImage = FALSE,
                       !.imageFrom = form.picks[k].n]

(* new-post button: openModal(buildPostForm({ mode: 'create' })) *)
OpenCreateForm ==
  /\ ~form.open
  /\ CanCreate
  /\ form' = NewForm("create", NoTarget, NULL)
  /\ UNCHANGED <<data, stored, saveInput, now>>

(* repost button: buildPostForm({ mode: 'create', targetPost: duplicate }) *)
OpenRepostForm(i) ==
  /\ ~form.open
  /\ CanCreate
  /\ i \in 1..Len(PostsOf(data))
  /\ ~data.posts[i].isDeleted
  /\ form' = NewForm("create", [kind |-> "copy", idx |-> i], NULL)
  /\ UNCHANGED <<data, stored, saveInput, now>>

(* reply button: buildPostForm({ mode: 'reply', parentId: post.id }) *)
OpenReplyForm(i) ==
  /\ ~form.open
  /\ CanCreate
  /\ i \in 1..Len(PostsOf(data))
  /\ ~data.posts[i].isDeleted
  /\ form' = NewForm("reply", NoTarget, data.posts[i].id)
  /\ UNCHANGED <<data, stored, saveInput, now>>

(* edit button of a post: buildPostForm({ mode: 'edit', targetPost: post }) *)
OpenEditForm(i) ==
  /\ ~form.open
  /\ i \in 1..Len(PostsOf(data))
  /\ ~data.posts[i].isDeleted
  /\ form' = NewForm("edit", [kind |-> "post", idx |-> i], NULL)
  /\ UNCHANGED <<data, stored, saveInput, now>>

(* edit button of a reply: buildPostForm({ mode: 'edit', targetPost: reply }) *)
OpenEditReplyForm(j) ==
  /\ ~form.open
  /\ j \in 1..Len(data.replies)
  /\ form' = NewForm("edit", [kind |-> "reply", idx |-> j], NULL)
  /\ UNCHANGED <<data, stored, saveInput, now>>

(* change event of the file input: readFileAsDataUrl(file) starts *)
FileChange(f) ==
  /\ form.open
  /\ form.pickCount < MaxPicks
  /\ form' = [form EXCEPT
                !.pickCount = @ + 1,
                !.picks = Append(@, [file |-> f, stage |-> "reading",
                                     n |-> form.pickCount + 1])]
  /\ UNCHANGED <<data, stored, saveInput, now>>

(* reader.onload: resolve(reader.result); then resizeIfNeeded(dataUrl) *)
ReaderLoad(k) ==
  /\ form.open
  /\ k \in 1..Len(form.picks)
  /\ form.picks[k].stage = "reading"
  /\ IF NeedsResize(FileDataUrl(form.picks[k].file))
     THEN form' = [form EXCEPT !.picks[k].stage = "decoding"]
     ELSE HandlerResumes(k, FileDataUrl(form.picks[k].file))
  /\ UNCHANGED <<data, stored, saveInput, now>>

(* reader.onerror: reject(reader.error); the await throws in the handler *)
ReaderError(k) ==
  /\ form.open
  /\ k \in 1..Len(form.picks)
  /\ form.picks[k].stage = "reading"
  /\ form' = [form EXCEPT !.picks = RemoveAt(@, k)]
  /\ UNCHANGED <<data, stored, saveInput, now>>

(* img.onload: resolve(canvas.toDataURL('image/jpeg', 0.9)) *)
ImageLoad(k) ==
  /\ form.open
  /\ k \in 1..Len(form.picks)
  /\ form.picks[k].stage = "decoding"
  /\ HandlerResumes(k, CanvasDataUrl(FileDataUrl(form.picks[k].file)))
  /\ UNCHANGED <<data, stored, saveInput, now>>

(* The Image fires error (the payload does not decode): resizeIfNeeded    *)
(* sets no onerror and its promise has no reject.                         *)
ImageError(k) ==
  /\ form.open
  /\ k \in 1..Len(form.picks)
  /\ form.picks[k].stage = "decoding"
  /\ form' = [form EXCEPT !.picks[k].stage = "hung"]
  /\ UNCHANGED <<data, stored, saveInput, now>>

(* remove button of the preview, shown while currentUrl is not null *)
RemoveImageClick ==
  /\ form.open
  /\ \/ form.imageDataUrl # NoPayload
     \/ ~form.removeImage /\ ExistingImageUrl(data, form.tgt) # NoPayload
  /\ form' = [form EXCEPT !.imageDataUrl = NoPayload, !.removeImage = TRUE,
                          !.imageFrom = 0]
  /\ UNCHANGED <<data, stored, saveInput, now>>

(* submit button: the handler; the alert and an early return when no text *)
(* block has content, otherwise persistData() and closeModal()            *)
SubmitClick(blocks) ==
  /\ form.open
  /\ Submit(form.mode, form.tgt, form.parentId, blocks,
            form.imageDataUrl, form.removeImage)
  /\ form' = IF HasContent(TextBlocks(blocks))
             THEN ClosedForm
             ELSE [form EXCEPT !.message = TRUE]

(* cancel button, close button or backdrop click: closeModal() *)
CancelClick ==
  /\ form.open
  /\ form' = ClosedForm
  /\ UNCHANGED <<data, stored, saveInput, now>>

FormNext ==
  \/ OpenCreateForm
  \/ \E i \in 1..MaxId : OpenRepostForm(i)
  \/ \E i \in 1..MaxId : OpenReplyForm(i)
  \/ \E i \in 1..MaxId : OpenEditForm(i)
  \/ \E j \in 1..MaxId : OpenEditReplyForm(j)
  \/ \E f \in Files : FileChange(f)
  \/ \E k \in 1..MaxPicks : ReaderLoad(k)
  \/ \E k \in 1..MaxPicks : ReaderError(k)
  \/ \E k \in 1..MaxPicks : ImageLoad(k)
  \/ \E k \in 1..MaxPicks : ImageError(k)
  \/ RemoveImageClick
  \/ \E b \in BlockInputs : SubmitClick(b)
  \/ CancelClick

FormSpec == Init /\ [][FormNext]_vars
(* ============================== properties ============================= *)
PostIds(d) == { PostsOf(d)[i].id : i \in 1..Len(PostsOf(d)) }
HasImagePost(d) == \E i \in 1..Len(PostsOf(d)) : d.posts[i].imageId # NULL

(* The last persistData ran to completion and nothing changed state.data  *)
(* since: the slot holds the in-memory state.                             *)
SaveCompleted == stored = data

(* Post i lost its image in the last save. *)
EvictedByLastSave(i) ==
  /\ SaveCompleted
  /\ i \in 1..Len(PostsOf(saveInput))
  /\ saveInput.posts[i].imageId # NULL
  /\ data.posts[i].imageId = NULL

(* C1: after every completed save the serialized state is within
   STORAGE_LIMIT, or no post has an image left to evict. *)
C1_WithinBudgetOrNothingEvictable ==
  SaveCompleted => SerializedLength(data) <= STORAGE_LIMIT \/ ~HasImagePost(data)

(* a save that found the state over budget and left it over budget, every
   post stripped *)
C1_Witness ==
  /\ SaveCompleted
  /\ SerializedLength(saveInput) > STORAGE_LIMIT
  /\ HasImagePost(saveInput)
  /\ SerializedLength(data) > STORAGE_LIMIT
  /\ ~HasImagePost(data)

(* saveInput with the image of post a stripped and its payload dropped *)
WithPayloadEvicted(d, a) ==
  [d EXCEPT !.posts[a].imageId = NULL,
            !.posts[a].imageRemoved = TRUE,
            !.images = [k \in DOMAIN d.images \ {d.posts[a].imageId} |-> d.images[k]]]

SharedImage(d, a) ==
  \/ \E i \in 1..Len(d.posts) : i # a /\ d.posts[i].imageId = d.posts[a].imageId
  \/ \E j \in 1..Len(d.replies) : d.replies[j].imageId = d.posts[a].imageId

(* C2: when a save finds the state over budget, post a is the oldest
   image-bearing post, no other record shares its image and dropping its
   payload alone fits the budget, then after the save a has imageId null and
   imageRemoved true, its payload is gone from images, and every other post
   keeps its imageId and payload. *)
C2_OldestImageEvictedAlone ==
  \A a \in 1..Len(PostsOf(saveInput)) :
    ( /\ SaveCompleted
      /\ SerializedLength(saveInput) > STORAGE_LIMIT
      /\ Candidates(saveInput) # <<>>
      /\ Candidates(saveInput)[1] = a
      /\ ~SharedImage(saveInput, a)
      /\ SerializedLength(WithPayloadEvicted(saveInput, a)) <= STORAGE_LIMIT )
    => /\ data.posts[a].imageId = NULL
       /\ data.posts[a].imageRemoved
       /\ saveInput.posts[a].imageId \notin DOMAIN data.images
       /\ \A b \in 1..Len(data.posts) :
            b # a => /\ data.posts[b].imageId = saveInput.posts[b].imageId
                     /\ data.posts[b].imageId # NULL
                          => data.posts[b].imageId \in DOMAIN data.images

(* C3: after every completed mutation-plus-persist cycle every key of
   images is the imageId of some post or reply. *)
C3_NoOrphanImage ==
  SaveCompleted => DOMAIN data.images \subseteq ReferencedIds(data)

(* C4: a confirmed deletePost of a post without replies, or a confirmed
   deleteReply, removes the record and, when no other record references its
   image, removes that image from images. *)
C4_HardDeleteReleasesImage ==
  [][ \A id \in 1..MaxId :
        /\ ( /\ IndexOfId(PostsOf(data), id) # 0
             /\ ~hasReplies(data, id)
             /\ DeletePost(id, TRUE) )
           => LET img == data.posts[IndexOfId(data.posts, id)].imageId
              IN /\ id \notin PostIds(data')
                 /\ (img # NULL /\ img \notin ReferencedIds(data'))
                      => img \notin DOMAIN data'.images
        /\ ( /\ IndexOfId(data.replies, id) # 0
             /\ DeleteReply(id, TRUE) )
           => LET img == data.replies[IndexOfId(data.replies, id)].imageId
              IN /\ IndexOfId(data'.replies, id) = 0
                 /\ (img # NULL /\ img \notin ReferencedIds(data'))
                      => img \notin DOMAIN data'.images
    ]_vars

(* C5: a save evicts oldest first: every post stripped by the save is
   older (smaller createdAt, or equal createdAt and earlier position) than
   every post that still has its image; and the save changes no reply and
   deletes no payload a reply references. *)
C5_OldestFirstRepliesUntouched ==
  SaveCompleted =>
    /\ \A i, j \in 1..Len(PostsOf(data)) :
         (EvictedByLastSave(i) /\ data.posts[j].imageId # NULL)
           => \/ saveInput.posts[i].createdAt < saveInput.posts[j].createdAt
              \/ /\ saveInput.posts[i].createdAt = saveInput.posts[j].createdAt
                 /\ i < j
    /\ data.replies = saveInput.replies
    /\ \A j \in 1..Len(data.replies) :
         (data.replies[j].imageId # NULL
            /\ data.replies[j].imageId \in DOMAIN saveInput.images)
           => /\ data.replies[j].imageId \in DOMAIN data.images
              /\ data.images[data.replies[j].imageId]
                   = saveInput.images[data.replies[j].imageId]

(* a save that stripped one post and stopped while a strictly newer post
   kept its image *)
C5_Witness ==
  \E i, j \in 1..Len(PostsOf(data)) :
    /\ EvictedByLastSave(i)
    /\ data.posts[j].imageId # NULL
    /\ saveInput.posts[i].createdAt < saveInput.posts[j].createdAt

(* C6: the tags of every post and reply are the tags extracted from its
   current texts. *)
C6_TagsMatchTexts ==
  /\ \A i \in 1..Len(PostsOf(data)) :
       data.posts[i].tags = extractTags(data.posts[i].texts)
  /\ \A j \in 1..Len(data.replies) :
       data.replies[j].tags = extractTags(data.replies[j].texts)

ParentExists ==
  \A j \in 1..Len(data.replies) : data.replies[j].postId \in PostIds(data)

SoftDeleteKeepsPostAndReplies ==
  \A id \in 1..MaxId :
    ( /\ IndexOfId(PostsOf(data), id) # 0
      /\ hasReplies(data, id)
      /\ DeletePost(id, TRUE) )
    => /\ Len(data'.posts) = Len(data.posts)
       /\ LET i == IndexOfId(data.posts, id)
          IN /\ data'.posts[i].id = id
             /\ data'.posts[i].isDeleted
             /\ data'.posts[i].texts = << [content |-> <<>>, language |-> "ja"] >>
       /\ data'.replies = data.replies

(* C7: every reply's postId names a post of posts in every reachable
   state, and deletePost on a post with a reply keeps the post (isDeleted,
   one empty text) and leaves replies unchanged. *)
C7_RepliesKeepTheirPost ==
  []ParentExists /\ [][SoftDeleteKeepsPostAndReplies]_vars

(* a soft-deleted post with its reply *)
C7_Witness ==
  \E i \in 1..Len(PostsOf(data)) :
    /\ data.posts[i].isDeleted
    /\ hasReplies(data, data.posts[i].id)

Flagged(d, id) ==
  \E i \in 1..Len(PostsOf(d)) : d.posts[i].id = id /\ d.posts[i].imageRemoved

(* C8 as stated: once imageRemoved is true on a post it stays true as long
   as the post exists. *)
C8_FlagNeverReset ==
  [][ \A id \in 1..MaxId :
        (Flagged(data, id) /\ id \in PostIds(data')) => Flagged(data', id) ]_vars

(* C8 amended: while a post stays in posts, imageRemoved goes back to false
   only in an edit of that post submitted with a newly picked image or with
   the image removed, or when an import replaces the whole state. *)
C8_FlagResetOnlyByImageEdit ==
  [][ \A id \in 1..MaxId :
        (Flagged(data, id) /\ id \in PostIds(data') /\ ~Flagged(data', id))
          => \/ \E b \in BlockInputs, img \in FormImageStates :
                  /\ img.imageDataUrl # NoPayload \/ img.removeImage
                  /\ EditPost(IndexOfId(data.posts, id), b, img)
             \/ \E f \in ImportFiles : importData(f) ]_vars

(* a post that carries the flag of an eviction and is liked *)
C8_Witness ==
  \E i \in 1..Len(PostsOf(data)) :
    data.posts[i].imageRemoved /\ data.posts[i].liked

(* C9: importing a malformed file shows the alert and leaves state.data
   and the stored blob as they were. *)
C9_MalformedImportChangesNothing ==
  [][ \A f \in {"notJson", "postsNotList"} :
        importData(f) => /\ ImportAlerts(f)
                         /\ data' = data
                         /\ stored' = stored ]_vars
(* C10: an asynchronous image operation is pending only until its load or
   error event fires: the event resumes the suspended handler with a payload
   or a failure. *)
C10_EventResumesTheHandler ==
  form.open => \A k \in 1..Len(form.picks) : form.picks[k].stage # "hung"
ReplyIds(d) == { d.replies[j].id : j \in 1..Len(d.replies) }
RecordIds(d) == PostIds(d) \cup ReplyIds(d)
ImportStep == \E f \in ImportFiles : importData(f)

IdsDistinctAndBounded ==
  /\ Cardinality(RecordIds(data)) = Len(PostsOf(data)) + Len(data.replies)
  /\ \A id \in RecordIds(data) : id <= data.lastId

(* C11: lastId never decreases in a create, repost, reply, edit, delete,
   like or save; every id a step adds is above the lastId before the step
   (no id of a deleted record comes back); and in every state the ids of
   posts and replies together are pairwise distinct and at most lastId. *)
C11_IdsUniqueLastIdMonotone ==
  /\ []IdsDistinctAndBounded
  /\ [][ ImportStep \/
         /\ data'.lastId >= data.lastId
         /\ \A id \in RecordIds(data') \ RecordIds(data) : id > data.lastId ]_vars

(* the record with id 1 was deleted and a record with id 2 exists *)
C11_Witness ==
  /\ data.lastId = 2
  /\ RecordIds(data) = {2}
(* the image ids removeImageIfUnused can be handed: null, every key of
   images, every id a record carries, and one id nobody knows *)
ImageIdArgs ==
  {NULL} \cup DOMAIN data.images \cup ReferencedIds(data) \cup {FreshImageId(data)}

(* C13: removeImageIfUnused(imageId) deletes nothing when a post or a reply
   carries imageId, deletes at most the key imageId, and leaves every other
   payload and every other part of the state as it was. *)
C13_ReleaseOnlyIfUnreferenced ==
  \A imageId \in ImageIdArgs :
    LET after == removeImageIfUnused(data, imageId)
    IN /\ imageId \in ReferencedIds(data) => after = data
       /\ [after EXCEPT !.images = data.images] = data
       /\ DOMAIN data.images \ {imageId} \subseteq DOMAIN after.images
       /\ \A k \in DOMAIN after.images :
            k \in DOMAIN data.images /\ after.images[k] = data.images[k]

(* the state holds a payload no record references, which the call deletes,
   and a payload a reply alone references, which the call keeps *)
C13_Witness ==
  /\ \E k \in DOMAIN data.images :
       /\ k \notin ReferencedIds(data)
       /\ k \notin DOMAIN removeImageIfUnused(data, k).images
  /\ \E j \in 1..Len(data.replies) :
       /\ data.replies[j].imageId \in DOMAIN data.images
       /\ \A i \in 1..Len(PostsOf(data)) :
            data.posts[i].imageId # data.replies[j].imageId
       /\ removeImageIfUnused(data, data.replies[j].imageId) = data
StoredPayloads(d) == { d.images[k] : k \in DOMAIN d.images }

(* C14: two calls of ensureImageId with the same payload return the same
   id and the second adds nothing to images; a call with a payload that is
   already stored returns a key that holds it and leaves the state as it
   was. *)
C14_EnsureImageIdIdempotent ==
  \A p \in Payloads :
    LET first == ensureImageId(data, p)
        second == ensureImageId(first.data, p)
    IN /\ second.id = first.id
       /\ second.data = first.data
       /\ first.id \in DOMAIN first.data.images
       /\ first.data.images[first.id] = p
       /\ p \in StoredPayloads(data) => first.data = data

(* one payload is stored, found again by the call, and another is not
   stored, so that the call adds it under a new key *)
C14_Witness ==
  \E p, q \in Payloads :
    /\ p \in StoredPayloads(data)
    /\ ensureImageId(data, p).data = data
    /\ q \notin StoredPayloads(data)
    /\ DOMAIN ensureImageId(data, q).data.images
         = DOMAIN data.images \cup {ensureImageId(data, q).id}
    /\ ensureImageId(data, q).id \notin DOMAIN data.images
(* C16: every non-null imageId of a post or a reply is a key of images. *)
C16_NoDanglingImageId ==
  ReferencedIds(data) \subseteq DOMAIN data.images

(* the last save evicted the image of a post that shared it with a reply:
   the reply still carries the id and images still holds it *)
C16_Witness ==
  /\ SaveCompleted
  /\ saveInput.postsIsList
  /\ \E i \in 1..Len(PostsOf(data)), j \in 1..Len(data.replies) :
       /\ i <= Len(saveInput.posts) /\ j <= Len(saveInput.replies)
       /\ saveInput.posts[i].imageId # NULL
       /\ saveInput.posts[i].imageId = saveInput.replies[j].imageId
       /\ data.posts[i].imageId = NULL /\ data.posts[i].imageRemoved
       /\ data.replies[j].imageId = saveInput.replies[j].imageId
       /\ data.replies[j].imageId \in DOMAIN data.images
(* every text area holds nothing but white space *)
AllBlank(blocks) ==
  \A k \in 1..Len(blocks) : \A c \in Range(blocks[k].content) : IsSpace(c)

(* C12: a submit of a create, repost, reply or edit form whose text areas
   are all empty after trimming shows the validation message and changes
   neither state.data (posts, replies, images, lastId) nor the stored blob;
   the form stays open with its image selection. *)
C12_BlankSubmitChangesNothing ==
  [][ \A b \in BlockInputs :
        (AllBlank(b) /\ SubmitClick(b))
          => /\ data' = data
             /\ stored' = stored
             /\ form' = [form EXCEPT !.message = TRUE] ]_vars

(* an edit form with a newly picked image was submitted blank: the alert
   was shown and the picked payload was not stored *)
C12_Witness ==
  /\ form.open
  /\ form.message
  /\ form.mode = "edit"
  /\ form.imageDataUrl # NoPayload
  /\ form.imageDataUrl \notin StoredPayloads(data)
  /\ stored = data
(* C15: while a form is open, the image it holds for the submit comes from
   ever later picks: the handler of an earlier pick, completing late, never
   replaces the image that the handler of a later pick has assigned. *)
C15_LaterPickWins ==
  [][ (form.open /\ form'.open /\ form.imageFrom # 0 /\ form'.imageFrom # 0)
        => \/ form'.imageFrom >= form.imageFrom
           \/ form'.imageDataUrl = form.imageDataUrl ]_vars
====
